---- MODULE Spec2Model ----
(***************************************************************************)
(* Y_Node of biofam/core/nodes/Y_nodes.py: the observed-data node of the   *)
(* factor-analysis model.  The node's attributes are the variables, every  *)
(* method is one action, and the numerical helpers are operators.          *)
(*                                                                         *)
(* Numbers.  The data and the collaborators' moments are integers.  A      *)
(* scalar of the ELBO is kept exactly as a record [ln2pi |-> a, half |-> b]*)
(* that stands for  a * (0.5*ln(2*pi)) + b * 0.5 ;  ln(2*pi) is irrational *)
(* so two scalars are equal iff their records are.  An entry of the        *)
(* residual matrix after `tmp *= 0.5` is kept as a count of halves.        *)
(*                                                                         *)
(* Python's None and an attribute that was never assigned are the empty    *)
(* tuple None; a present object x is Some(x) = <<x>>.                      *)
(***************************************************************************)
EXTENDS Integers, Sequences, FiniteSets, TLC

\* ---------------------------------------------------------------- bounds
\* data values are 0..MaxVal, or missing
MaxVal == 1
\* longest row sequence handed to define_mini_batch
MaxBatch == 2
\* group ids are 0..MaxGroup
MaxGroup == 1
\* expected precisions are 1..MaxTau
MaxTau == 1

\* the shapes <<N, D, K>> explored: the data is N x D, and the collaborators
\* Z (N x K) and W (D x K) have K latent factors
Shapes == {<<2, 1, 2>>, <<1, 2, 2>>}

\* the shapes the evaluator is explored with
ShapesELBO == Shapes \cup {<<2, 2, 1>>}

\* first moments of Z and W, and their posterior variances
Moments == {0, 1}

\* the missing-value marker of the raw input (numpy's NaN)
NaN == -1

None == <<>>
Some(x) == <<x>>
The(o) == o[1]

VARIABLES
  input,       \* the raw matrix handed to the constructor (history)
  dim,         \* self.dim
  value,       \* self.value
  mask,        \* self.mask (the attribute that shadows the method)
  mini_batch,  \* self.mini_batch
  mini_mask,   \* self.mini_mask
  N,           \* self.N : effective count per column
  D,           \* self.D : effective count per row
  likconst,    \* self.likconst
  gpu_mode,    \* gpu_utils.gpu_mode
  markov_blanket, \* self.markov_blanket, the collaborators Tau, W and Z
  ret,         \* the outcome of the last call, with the locals it returned from
  lastIx,      \* argument of the last define_mini_batch that returned (history)
  precomputed  \* a precompute call has returned (history)

vars == <<input, dim, value, mask, mini_batch, mini_mask, N, D, likconst,
          gpu_mode, markov_blanket, ret, lastIx, precomputed>>

\* ---------------------------------------------------------------- arrays
RECURSIVE SumTo(_, _)
SumTo(f, n) == IF n = 0 THEN 0 ELSE f[n] + SumTo(f, n - 1)

Sum(v) == SumTo(v, Len(v))

B2I(b) == IF b THEN 1 ELSE 0

\* m.sum(axis=0) of a boolean matrix with ncols columns
SumAxis0(m, ncols) ==
  [j \in 1..ncols |-> SumTo([i \in 1..Len(m) |-> B2I(m[i][j])], Len(m))]

\* m.sum(axis=1) of a boolean matrix
SumAxis1(m) ==
  [i \in 1..Len(m) |-> SumTo([j \in 1..Len(m[i]) |-> B2I(m[i][j])], Len(m[i]))]

\* a[ix, :] for a sequence ix of 0-based row numbers
InRange(a, ix) == \A p \in 1..Len(ix) : ix[p] >= 0 /\ ix[p] < Len(a)

Gather(a, ix) == [p \in 1..Len(ix) |-> a[ix[p] + 1]]

\* ---------------------------------------------------------------- masking
isnan(x) == x = NaN

\* a variant of MaskOf that also takes a zero for a missing entry
MaskOf_zeroIsMissing(v) ==
  [i \in 1..Len(v) |-> [j \in 1..Len(v[i]) |-> isnan(v[i][j]) \/ v[i][j] = 0]]

\* Y_Node.mask, line 38
MaskOf(v) == [i \in 1..Len(v) |-> [j \in 1..Len(v[i]) |-> isnan(v[i][j])]]

\* Y_Node.mask, line 39: self.value[mask] = 0.
Cleaned(v, m) ==
  [i \in 1..Len(v) |-> [j \in 1..Len(v[i]) |-> IF m[i][j] THEN 0 ELSE v[i][j]]]

\* ---------------------------------------------------------------- getters
getMask == IF mini_batch = None THEN mask ELSE The(mini_mask)

getExpectation == value

get_mini_batch == IF mini_batch = None THEN getExpectation ELSE The(mini_batch)

\* ---------------------------------------------------------------- inputs
Matrices(n, d) == [1..n -> [1..d -> {NaN} \cup (0..MaxVal)]]

RECURSIVE SeqsUpTo(_, _)
SeqsUpTo(S, n) ==
  IF n = 0 THEN {<<>>}
  ELSE LET P == SeqsUpTo(S, n - 1)
       IN  P \cup {Append(s, x) : s \in {t \in P : Len(t) = n - 1}, x \in S}

\* row sequences handed to define_mini_batch; the row number dim[1] is out of range
Batches == SeqsUpTo(0..(dim[1] - 1), MaxBatch) \cup {<<dim[1]>>}

Options ==
  { [isNone |-> TRUE,  hasKey |-> FALSE, gpu_mode |-> FALSE],
    [isNone |-> FALSE, hasKey |-> FALSE, gpu_mode |-> FALSE],
    [isNone |-> FALSE, hasKey |-> TRUE,  gpu_mode |-> TRUE] }

\* the locals of a call that has none worth keeping
NoFrame == [TauTrick |-> FALSE]

Return(op, v) == [op |-> op, kind |-> "return", val |-> v, frame |-> NoFrame]

Raise(op, e) == [op |-> op, kind |-> "raise", val |-> e, frame |-> NoFrame]

\* ---------------------------------------------------------------- precompute
precompute_N(m) == [j \in 1..dim[2] |-> dim[1] - SumAxis0(m, dim[2])[j]]

precompute_D(m) == [i \in 1..Len(m) |-> dim[2] - SumAxis1(m)[i]]

precompute_likconst(n) == [ln2pi |-> 0 - Sum(n), half |-> 0]

\* a variant of precompute that stores the constant before it reads the options
precompute_constantFirst(options) ==
  /\ N' = Some(precompute_N(getMask))
  /\ D' = Some(precompute_D(getMask))
  /\ likconst' = Some(precompute_likconst(precompute_N(getMask)))
  /\ IF options.isNone
       THEN /\ ret' = Raise("precompute", "TypeError")
            /\ UNCHANGED <<gpu_mode, precomputed>>
       ELSE IF ~options.hasKey
       THEN /\ ret' = Raise("precompute", "KeyError")
            /\ UNCHANGED <<gpu_mode, precomputed>>
       ELSE /\ gpu_mode' = options.gpu_mode
            /\ precomputed' = TRUE
            /\ ret' = Return("precompute", "None")
  /\ UNCHANGED <<input, dim, value, mask, mini_batch, mini_mask, markov_blanket,
                 lastIx>>

precompute(options) ==
  /\ N' = Some(precompute_N(getMask))
  /\ D' = Some(precompute_D(getMask))
  /\ IF options.isNone
       THEN /\ ret' = Raise("precompute", "TypeError")
            /\ UNCHANGED <<gpu_mode, likconst, precomputed>>
       ELSE IF ~options.hasKey
       THEN /\ ret' = Raise("precompute", "KeyError")
            /\ UNCHANGED <<gpu_mode, likconst, precomputed>>
       ELSE /\ gpu_mode' = options.gpu_mode
            /\ likconst' = Some(precompute_likconst(precompute_N(getMask)))
            /\ precomputed' = TRUE
            /\ ret' = Return("precompute", "None")
  /\ UNCHANGED <<input, dim, value, mask, mini_batch, mini_mask, markov_blanket,
                 lastIx>>

\* ---------------------------------------------------------------- mini-batches
\* a variant of define_mini_batch that keeps the rows of a batch already defined
define_mini_batch_keepsFirst(ix) ==
  /\ IF InRange(value, ix)
       THEN /\ mini_batch' = IF mini_batch = None THEN Some(Gather(value, ix))
                                                  ELSE mini_batch
            /\ mini_mask' = Some(Gather(mask, ix))
            /\ lastIx' = Some(ix)
            /\ ret' = Return("define_mini_batch", "None")
       ELSE /\ ret' = Raise("define_mini_batch", "IndexError")
            /\ UNCHANGED <<mini_batch, mini_mask, lastIx>>
  /\ UNCHANGED <<input, dim, value, mask, N, D, likconst, gpu_mode,
                 markov_blanket, precomputed>>

\* a variant of define_mini_batch that takes an empty row sequence for "no batch"
define_mini_batch_emptyClears(ix) ==
  /\ IF InRange(value, ix)
       THEN /\ mini_batch' = IF ix = <<>> THEN None ELSE Some(Gather(value, ix))
            /\ mini_mask' = IF ix = <<>> THEN None ELSE Some(Gather(mask, ix))
            /\ lastIx' = Some(ix)
            /\ ret' = Return("define_mini_batch", "None")
       ELSE /\ ret' = Raise("define_mini_batch", "IndexError")
            /\ UNCHANGED <<mini_batch, mini_mask, lastIx>>
  /\ UNCHANGED <<input, dim, value, mask, N, D, likconst, gpu_mode,
                 markov_blanket, precomputed>>

define_mini_batch(ix) ==
  /\ IF InRange(value, ix)
       THEN /\ mini_batch' = Some(Gather(value, ix))
            /\ mini_mask' = Some(Gather(mask, ix))
            /\ lastIx' = Some(ix)
            /\ ret' = Return("define_mini_batch", "None")
       ELSE /\ ret' = Raise("define_mini_batch", "IndexError")
            /\ UNCHANGED <<mini_batch, mini_mask, markov_blanket,
                 lastIx>>
  /\ UNCHANGED <<input, dim, value, mask, N, D, likconst, gpu_mode,
                 markov_blanket, precomputed>>

call_getMask ==
  /\ ret' = Return("getMask", getMask)
  /\ UNCHANGED <<input, dim, value, mask, mini_batch, mini_mask, N, D,
                 likconst, gpu_mode, markov_blanket, lastIx, precomputed>>

call_get_mini_batch ==
  /\ ret' = Return("get_mini_batch", get_mini_batch)
  /\ UNCHANGED <<input, dim, value, mask, mini_batch, mini_mask, N, D,
                 likconst, gpu_mode, markov_blanket, lastIx, precomputed>>

\* ---------------------------------------------------------------- collaborators
\* The nodes reached through self.markov_blanket, as calculateELBO sees them:
\*   groups        Tau.groups, one integer group id per row
\*   tauE, tauLnE  Tau.getExpectations(expand=False): one row per group
\*   Qb, Pb        Tau.getParameters("Q")["b"], Tau.getParameters("P")["b"]
\*   ZE, ZE2       Z.getExpectations(): N x K first and second moments
\*   WE, WE2       W.getExpectations(): D x K first and second moments
GroupCount(groups) == Cardinality({groups[i] : i \in 1..Len(groups)})

Blanket(n, d, k, groups, e, l, z, w, vz, vw) ==
  [ groups |-> groups,
    tauE   |-> [g \in 1..GroupCount(groups) |-> [j \in 1..d |-> e + (g - 1)]],
    tauLnE |-> [g \in 1..GroupCount(groups) |-> [j \in 1..d |-> l + (g - 1)]],
    Qb     |-> [j \in 1..d |-> 2 + j],
    Pb     |-> [j \in 1..d |-> 1],
    ZE     |-> z,
    ZE2    |-> [i \in 1..n |-> [c \in 1..k |-> z[i][c] * z[i][c] + vz]],
    WE     |-> w,
    WE2    |-> [j \in 1..d |-> [c \in 1..k |-> w[j][c] * w[j][c] + vw]] ]

\* every collaborator state of the bounded domain
Blankets(n, d, k) ==
  { Blanket(n, d, k, groups, e, 2, z, w, v, v) :
      groups \in [1..n -> 0..MaxGroup],
      e \in 1..MaxTau,
      z \in [1..n -> [1..k -> Moments]],
      w \in [1..d -> [1..k -> Moments]],
      v \in Moments }

\* the collaborator states the node's life cycle is explored with
FewBlankets(n, d, k) ==
  { Blanket(n, d, k, [i \in 1..n |-> 0], 1, 1,
            [i \in 1..n |-> [c \in 1..k |-> 1]],
            [j \in 1..d |-> [c \in 1..k |-> 1]], 1, 0) }

\* ---------------------------------------------------------------- calculateELBO
\* the number of latent factors
K(mb) == Len(mb.WE[1])

\* Z.dot(W) with W = Wtmp["E"].T
ZdotW(mb, i, j) == SumTo([k \in 1..K(mb) |-> mb.ZE[i][k] * mb.WE[j][k]], K(mb))

\* a variant of residualSq without the second-moment terms: (Z.W - Y)^2
residualSq_firstMomentsOnly(mb, Y, i, j) ==
  (ZdotW(mb, i, j) - Y[i][j]) * (ZdotW(mb, i, j) - Y[i][j])

\* lines 87-90, one entry of tmp before the scaling
residualSq(mb, Y, i, j) ==
    Y[i][j] * Y[i][j]
  + SumTo([k \in 1..K(mb) |-> mb.ZE2[i][k] * mb.WE2[j][k]], K(mb))
  - SumTo([k \in 1..K(mb) |->
             (mb.ZE[i][k] * mb.ZE[i][k]) * (mb.WE[j][k] * mb.WE[j][k])], K(mb))
  + ZdotW(mb, i, j) * ZdotW(mb, i, j)
  - 2 * ZdotW(mb, i, j) * Y[i][j]

\* line 91, tmp *= 0.5 : x * 0.5 is x halves
TimesHalf(x) == x

\* lines 87-92: tmp in halves, the entries under the mask zeroed
MaskedTmp(mb, Y, m) ==
  [i \in 1..Len(Y) |-> [j \in 1..Len(Y[i]) |->
     IF m[i][j] THEN 0 ELSE TimesHalf(residualSq(mb, Y, i, j))]]

\* line 96: the group ids the loop visits, in order
LoopGroups(groups) == [p \in 1..GroupCount(groups) |-> p - 1]

\* line 97: idx = groups==g, as the set of rows selected
GroupRows(groups, g) == {i \in 1..Len(groups) : groups[i] = g}

\* line 98: foo = (~mask[idx,:]).sum(axis=0)
Foo(m, rows, d) ==
  [j \in 1..d |-> SumTo([i \in 1..Len(m) |-> B2I(i \in rows /\ ~m[i][j])], Len(m))]

\* line 99: what one iteration adds to elbo, in halves
GroupTerm(mb, m, tmp, g, d) ==
  LET rows == GroupRows(mb.groups, g)
      foo  == Foo(m, rows, d)
  IN  SumTo([j \in 1..d |-> mb.tauLnE[g + 1][j] * foo[j]], d)
    - SumTo([i \in 1..Len(tmp) |->
        IF i \in rows
          THEN SumTo([j \in 1..d |-> mb.tauE[g + 1][j] * tmp[i][j]], d)
          ELSE 0], Len(tmp))

\* lines 94-99: elbo after the whole loop
LoopELBO(mb, lik, m, tmp, d) ==
  LET gs == LoopGroups(mb.groups)
  IN  [ln2pi |-> lik.ln2pi,
       half  |-> lik.half
                 + SumTo([p \in 1..Len(gs) |-> GroupTerm(mb, m, tmp, gs[p], d)], Len(gs))]

\* the per-group counts foo, summed over the iterations of the loop
LoopFoo(mb, m, d) ==
  LET gs == LoopGroups(mb.groups)
  IN  [j \in 1..d |->
        SumTo([p \in 1..Len(gs) |-> Foo(m, GroupRows(mb.groups, gs[p]), d)[j]], Len(gs))]

\* lines 66-75.  `mask` is a local of calculateELBO (line 81 assigns it), and
\* this branch reads it at line 70 before any assignment.
FastPath(mb) ==
  [op |-> "calculateELBO", kind |-> "raise", val |-> "UnboundLocalError",
   frame |-> [TauTrick |-> TRUE]]

\* lines 78-101
GeneralPath(mb) ==
  LET Y   == getExpectation
      m   == getMask
      tmp == MaskedTmp(mb, Y, m)
  IN  IF Len(m) # Len(Y)
        THEN \* line 92: the boolean index has not the shape of tmp
             Raise("calculateELBO", "IndexError")
        ELSE IF likconst = None
        THEN \* line 94
             Raise("calculateELBO", "AttributeError")
        ELSE [op |-> "calculateELBO", kind |-> "return",
              val |-> LoopELBO(mb, The(likconst), m, tmp, dim[2]),
              frame |-> [TauTrick |-> FALSE, Y |-> Y, mask |-> m,
                         gs |-> LoopGroups(mb.groups),
                         foo |-> LoopFoo(mb, m, dim[2]),
                         read |-> {"Tau", "W", "Z"}]]

calculateELBO(TauTrick) ==
  /\ ret' = IF TauTrick THEN FastPath(markov_blanket)
                        ELSE GeneralPath(markov_blanket)
  /\ UNCHANGED <<input, dim, value, mask, mini_batch, mini_mask, N, D,
                 likconst, gpu_mode, markov_blanket, lastIx, precomputed>>

\* ---------------------------------------------------------------- construction
\* the node after Y_Node.__init__(dim, value) on the raw matrix `input`
Constructed(shape) ==
  /\ dim = <<shape[1], shape[2]>>
  /\ input \in Matrices(dim[1], dim[2])
  /\ mask = MaskOf(input)
  /\ value = Cleaned(input, MaskOf(input))
  /\ mini_batch = None
  /\ mini_mask = None
  /\ N = None
  /\ D = None
  /\ likconst = None
  /\ gpu_mode = FALSE
  /\ ret = Return("__init__", "None")
  /\ lastIx = None
  /\ precomputed = FALSE

\* ---------------------------------------------------------------- specifications
Init ==
  \E shape \in Shapes :
    /\ Constructed(shape)
    /\ markov_blanket \in FewBlankets(shape[1], shape[2], shape[3])

Next ==
  \/ \E options \in Options : precompute(options)
  \/ \E ix \in Batches : define_mini_batch(ix)
  \/ call_getMask
  \/ call_get_mini_batch
  \/ \E TauTrick \in BOOLEAN : calculateELBO(TauTrick)

Spec == Init /\ [][Next]_vars

\* the general path of the evaluator on the full data, over every collaborator
\* state of the domain
InitELBO ==
  \E shape \in ShapesELBO :
    /\ Constructed(shape)
    /\ markov_blanket \in Blankets(shape[1], shape[2], shape[3])

NextELBO ==
  \/ \E options \in {o \in Options : o.hasKey} : precompute(options)
  \/ calculateELBO(FALSE)

SpecELBO == InitELBO /\ [][NextELBO]_vars

\* ================================================================ claims
Cells == {<<i, j>> : i \in 1..dim[1], j \in 1..dim[2]}

Missing == {c \in Cells : input[c[1]][c[2]] = NaN}

\* number of true entries in column j, and in row i, of a boolean matrix
MissingInColumn(m, j) == Cardinality({i \in 1..Len(m) : m[i][j]})

MissingInRow(m, i) == Cardinality({j \in 1..Len(m[i]) : m[i][j]})

\* the rows of a that the row sequence ix names, in its order
RowsOf(a, ix) == [p \in 1..Len(ix) |-> a[ix[p] + 1]]

ReturnedFrom(op) == ret.op = op /\ ret.kind = "return"

\* C1: the mask is true exactly at the missing positions of the input, the value
\* is 0 there and the input everywhere else, in every state any sequence of
\* calls reaches.
C1_MaskAndValueFixed ==
  /\ Len(mask) = dim[1] /\ Len(value) = dim[1]
  /\ \A c \in Cells :
       /\ mask[c[1]][c[2]] <=> c \in Missing
       /\ c \in Missing => value[c[1]][c[2]] = 0
       /\ c \notin Missing => value[c[1]][c[2]] = input[c[1]][c[2]]

\* a general-path evaluation has returned on a node with a batch defined, whose
\* input has a missing entry and an entry that is not zero
C1_Witness ==
  /\ ReturnedFrom("calculateELBO")
  /\ lastIx # None
  /\ precomputed
  /\ Missing # {}
  /\ \E c \in Cells : input[c[1]][c[2]] > 0

\* C2: the active mask and the active data are the full ones while no batch was
\* defined, and afterwards exactly the rows the last define_mini_batch named, in
\* its order; getMask() and get_mini_batch() return them.
C2_ActiveViewIsLastBatch ==
  /\ lastIx = None => getMask = mask /\ get_mini_batch = value
  /\ lastIx # None =>
       /\ getMask = RowsOf(mask, The(lastIx))
       /\ get_mini_batch = RowsOf(value, The(lastIx))
  /\ ReturnedFrom("getMask") =>
       ret.val = IF lastIx = None THEN mask ELSE RowsOf(mask, The(lastIx))
  /\ ReturnedFrom("get_mini_batch") =>
       ret.val = IF lastIx = None THEN value ELSE RowsOf(value, The(lastIx))

\* get_mini_batch() has returned a batch that repeats the second of two rows
\* that differ
C2_Witness ==
  /\ ReturnedFrom("get_mini_batch")
  /\ dim[1] = 2
  /\ lastIx = Some(<<1, 1>>)
  /\ value[1] # value[2]
  /\ mask[1] # mask[2]

\* C3: after a precompute that returned, every column count plus the missing
\* entries of that column of the active mask is the number of rows and lies in
\* 0..N, and every row count plus the missing entries of that row is the number
\* of columns and lies in 0..D.
C3_EffectiveCountsInRange ==
  ReturnedFrom("precompute") =>
    /\ \A j \in 1..dim[2] :
         /\ The(N)[j] + MissingInColumn(getMask, j) = dim[1]
         /\ 0 <= The(N)[j] /\ The(N)[j] <= dim[1]
    /\ \A i \in 1..Len(getMask) :
         /\ The(D)[i] + MissingInRow(getMask, i) = dim[2]
         /\ 0 <= The(D)[i] /\ The(D)[i] <= dim[2]

\* likelihoodConstant + 0.5*sum(lnE_tau) - dot(E_tau, Qb - Pb), in halves, with
\* the expectations of Tau expanded to one row per sample
FastPathFormula(mb, lik) ==
  [ln2pi |-> lik.ln2pi,
   half  |-> lik.half
             + SumTo([i \in 1..dim[1] |->
                  SumTo([j \in 1..dim[2] |-> mb.tauLnE[mb.groups[i] + 1][j]], dim[2])],
                  dim[1])
             - 2 * SumTo([i \in 1..dim[1] |->
                  SumTo([j \in 1..dim[2] |->
                     mb.tauE[mb.groups[i] + 1][j] * (mb.Qb[j] - mb.Pb[j])], dim[2])],
                  dim[1])]

\* C4: a fast-path evaluation after precompute returns
\* likelihoodConstant + 0.5*sum(lnE_tau) - dot(E_tau, Qb - Pb) and raises nothing.
C4_FastPathReturns ==
  (ret.op = "calculateELBO" /\ ret.frame.TauTrick /\ precomputed) =>
    /\ ret.kind = "return"
    /\ ret.val = FastPathFormula(markov_blanket, The(likconst))

GroupIds(groups) == {groups[i] : i \in 1..Len(groups)}

\* C5: on the full data the group loop visits every distinct group id once and
\* no other id, and the per-group counts of non-missing entries add up to
\* N_per_column.
C5_GroupLoopCoversGroups ==
  (ReturnedFrom("calculateELBO") /\ lastIx = None) =>
    /\ {ret.frame.gs[p] : p \in 1..Len(ret.frame.gs)} = GroupIds(markov_blanket.groups)
    /\ Len(ret.frame.gs) = Cardinality(GroupIds(markov_blanket.groups))
    /\ ret.frame.foo = The(N)

\* the spec's residualSq, summed over all entries
RECURSIVE DotK(_, _, _)
DotK(a, b, k) == IF k = 0 THEN 0 ELSE a[k] * b[k] + DotK(a, b, k - 1)

Sq(v) == [k \in 1..Len(v) |-> v[k] * v[k]]

SpecResidualSq(mb, i, j) ==
  LET y  == value[i][j]
      zw == DotK(mb.ZE[i], mb.WE[j], Len(mb.ZE[i]))
  IN  y * y + DotK(mb.ZE2[i], mb.WE2[j], Len(mb.ZE[i]))
      - DotK(Sq(mb.ZE[i]), Sq(mb.WE[j]), Len(mb.ZE[i]))
      + zw * zw - 2 * zw * y

RECURSIVE SumOver(_, _)
SumOver(S, mb) ==
  IF S = {} THEN 0
  ELSE LET c == CHOOSE x \in S : TRUE
       IN  SpecResidualSq(mb, c[1], c[2]) + SumOver(S \ {c}, mb)

\* no data is missing, every row is in group 0, and the general path returned
ZeroMissingOneGroup ==
  /\ ReturnedFrom("calculateELBO")
  /\ ~ret.frame.TauTrick
  /\ lastIx = None
  /\ Missing = {}
  /\ \A i \in 1..dim[1] : markov_blanket.groups[i] = 0

\* C6 as stated: the general-path ELBO is
\* likelihoodConstant + 0.5*D*N*lnE_tau - E_tau * sum(residualSq).
C6_ZeroMissingAsStated ==
  ZeroMissingOneGroup =>
    ret.val = [ln2pi |-> The(likconst).ln2pi,
               half  |-> The(likconst).half
                         + dim[2] * dim[1] * markov_blanket.tauLnE[1][1]
                         - 2 * markov_blanket.tauE[1][1] * SumOver(Cells, markov_blanket)]

\* C6, amended: the general-path ELBO is
\* likelihoodConstant + 0.5*D*N*lnE_tau - 0.5 * E_tau * sum(residualSq).
C6_ZeroMissingHalved ==
  ZeroMissingOneGroup =>
    ret.val = [ln2pi |-> The(likconst).ln2pi,
               half  |-> The(likconst).half
                         + dim[2] * dim[1] * markov_blanket.tauLnE[1][1]
                         - markov_blanket.tauE[1][1] * SumOver(Cells, markov_blanket)]

\* the case of C6 with a residual that is not zero, on two factors with
\* posterior variance
C6_Witness ==
  /\ ZeroMissingOneGroup
  /\ SumOver(Cells, markov_blanket) > 0
  /\ \E c \in Cells : value[c[1]][c[2]] > 0
  /\ markov_blanket.ZE2 # [i \in 1..dim[1] |-> Sq(markov_blanket.ZE[i])]

\* C7: an evaluation on a node on which no precompute has returned ends in an
\* error; a scalar is returned only after a precompute that returned.
C7_NoELBOBeforePrecompute ==
  /\ (ret.op = "calculateELBO" /\ ~precomputed) => ret.kind = "raise"
  /\ ~precomputed => likconst = None

\* an evaluation of the general path has failed for the missing constant, on a
\* node whose only precompute call had failed
C7_Witness ==
  /\ ret.op = "calculateELBO"
  /\ ret.kind = "raise"
  /\ ret.val = "AttributeError"
  /\ ~precomputed
  /\ N # None

\* C8: with a batch defined, the general path reads the rows of the batch, both
\* for the data and for the mask.
C8_ELBOReadsTheBatch ==
  (ReturnedFrom("calculateELBO") /\ lastIx # None) =>
    /\ ret.frame.Y = RowsOf(value, The(lastIx))
    /\ ret.frame.mask = RowsOf(mask, The(lastIx))

\* C9: whenever likconst is defined it is -0.5 * sum(N_per_column) * ln(2*pi)
\* of the stored N_per_column.
C9_LikconstMatchesCounts ==
  likconst # None =>
    /\ N # None
    /\ The(likconst) = [ln2pi |-> 0 - SumTo(The(N), Len(The(N))), half |-> 0]

\* C10: once a batch is defined, a batch is defined in every later state.
C10_BatchStaysDefined == [][mini_batch # None => mini_batch' # None]_vars

\* a batch is defined and precompute has returned after it was defined
C10_Witness ==
  /\ mini_batch # None
  /\ ReturnedFrom("precompute")
  /\ Len(getMask) # dim[1]

====
